---- MODULE Spec2Model ----
(***************************************************************************)
(* Cross-database business validations (src/src/business_validations.py)  *)
(* over the four connectors of src/src/db_connectors/database.py.          *)
(*                                                                         *)
(* main() builds a BusinessValidator (four connections), runs the three    *)
(* checks in order and closes the connections.  Every check issues its     *)
(* queries one source after the other and then compares what it fetched.   *)
(*                                                                         *)
(* A cell value is an option: <<>> is SQL NULL (None / NaN / NaT in the    *)
(* frame), <<v>> is the value v.  A message is the sequence of the pieces  *)
(* the f-strings put together.  Percentages are kept as exact fractions.   *)
(***************************************************************************)
EXTENDS Integers, Sequences, FiniteSets, TLC

VARIABLES
    pc,        \* statement main() is at
    conn,      \* per source: connection not built, open, or closed
    cur,       \* the check whose local variables the state holds
    qi,        \* index of the next execute_query call of the running check
    fetched,   \* what the running check's queries returned, in call order
    dtype,     \* dtype of the revenue columns of the frames
    calls,     \* execute_query calls per source made by the check cur
    failed,    \* sources whose execute_query raised in the check cur
    compared,  \* whether the check cur reached its comparison code
    results    \* main()'s customer_validation, revenue_validation, inventory_validation

vars == <<pc, conn, cur, qi, fetched, dtype, calls, failed, compared, results>>

-----------------------------------------------------------------------------
(* Bounds of the model *)

MaxCount == 1
MaxRunRows == 1
MaxRows == 2

(* The tolerance of the revenue check, in percent *)
Threshold == 1

-----------------------------------------------------------------------------
(* Values *)

Null == <<>>
Some(v) == <<v>>
IsNull(x) == x = <<>>

Sources == {"postgres", "oracle", "teradata", "snowflake"}

ConnectOrder == <<"postgres", "oracle", "teradata", "snowflake">>

Checks == {"validate_customer_data", "validate_revenue_data", "validate_inventory_levels"}

CheckSources ==
    [validate_customer_data |-> <<"postgres", "oracle", "teradata", "snowflake">>,
     validate_revenue_data |-> <<"postgres", "snowflake">>,
     validate_inventory_levels |-> <<"postgres", "oracle">>]

\* the statement of main() that follows the call of a check
After(check) ==
    CASE check = "validate_customer_data" -> "validate_revenue_data"
      [] check = "validate_revenue_data" -> "validate_inventory_levels"
      [] check = "validate_inventory_levels" -> "exit"

\* diagnostics of the drivers, wrapped by execute_query
DriverDiagnostics == {"timeout expired", "permission denied"}

DTypes == {"float64", "object"}

NoResult == [validation_status |-> "NONE", message |-> <<>>, discrepancies |-> <<>>, counts |-> <<>>]

NoCalls == [s \in Sources |-> 0]

Digits == <<"0", "1", "2", "3", "4", "5", "6", "7", "8", "9">>

RECURSIVE ToStr(_)
ToStr(n) == IF n < 10 THEN Digits[n + 1] ELSE ToStr(n \div 10) \o Digits[(n % 10) + 1]

Abs(x) == IF x < 0 THEN -x ELSE x

-----------------------------------------------------------------------------
(* Result dictionaries *)

ErrorPrefix(check) ==
    IF check = "validate_inventory_levels"
    THEN "Error during inventory validation: "
    ELSE "Error during validation: "

\* the except branch of a check: str(e) after the check's prefix
ErrorResult(check, e) ==
    [validation_status |-> "ERROR", message |-> <<ErrorPrefix(check)>> \o e,
     discrepancies |-> <<>>, counts |-> <<>>]

\* str(e) of the exception execute_query raises
QueryError(diag) == <<"Error executing query: ", diag>>

-----------------------------------------------------------------------------
(* pandas: DataFrame, merge *)

\* columns of pd.DataFrame(rows): those of the row dictionaries, none for no rows
Columns(rows) == IF rows = <<>> THEN {} ELSE DOMAIN rows[1]

\* merge matches key cells by value, and a null cell with a null cell
KeyMatch(a, b) ==
    \/ IsNull(a) /\ IsNull(b)
    \/ ~IsNull(a) /\ ~IsNull(b) /\ a[1] = b[1]

KeysMatch(l, r, on) == \A i \in 1..Len(on) : KeyMatch(l[on[i]], r[on[i]])

\* the on-columns a frame lacks
MissingKeys(left, right, on) ==
    {i \in 1..Len(on) : on[i] \notin Columns(left) \/ on[i] \notin Columns(right)}

Min(S) == CHOOSE x \in S : \A y \in S : x <= y

\* str(KeyError(column))
KeyErrorText(on, i) == <<"'" \o on[i] \o "'">>

\* inner join, in the order of the left rows: the pairs <<left row, right row>>
RECURSIVE Merge(_, _, _)
Merge(left, right, on) ==
    IF left = <<>> THEN <<>>
    ELSE LET l == Head(left)
             ms == SelectSeq(right, LAMBDA r : KeysMatch(l, r, on))
         IN [i \in 1..Len(ms) |-> <<l, ms[i]>>] \o Merge(Tail(left), right, on)

-----------------------------------------------------------------------------
(* validate_customer_data: the comparison *)

CountsOf(rows) == [i \in 1..Len(rows) |-> rows[i].customer_count]

CustomerResult(counts) ==
    IF Cardinality({counts[i] : i \in 1..Len(counts)}) # 1
    THEN [validation_status |-> "FAILED",
          message |-> <<"Customer counts do not match across systems">>,
          discrepancies |-> <<>>, counts |-> counts]
    ELSE [validation_status |-> "PASSED",
          message |-> <<"Customer counts match across all systems">>,
          discrepancies |-> <<>>, counts |-> counts]

-----------------------------------------------------------------------------
(* validate_revenue_data: the comparison *)

\* abs((pg - sf) / pg) * 100 as the fraction num / den; den = 0 is inf (num > 0) or NaN
DiffPercentage(pg, sf) == [num |-> 100 * Abs(pg - sf), den |-> Abs(pg)]

\* diff_percentage > 1 (inf > 1 is true, NaN > 1 is false)
Exceeds(d) == IF d.den = 0 THEN d.num > 0 ELSE d.num > Threshold * d.den

RevenueJoined(pair) ==
    [date |-> pair[1].date,
     daily_revenue_pg |-> pair[1].daily_revenue,
     daily_revenue_sf |-> pair[2].daily_revenue,
     diff_percentage |-> DiffPercentage(pair[1].daily_revenue[1], pair[2].daily_revenue[1])]

RevenueMerged(pg, sf) ==
    LET m == Merge(pg, sf, <<"date">>) IN [i \in 1..Len(m) |-> RevenueJoined(m[i])]

\* str(e) of what decimal raises on a division by zero
DecimalError(row) ==
    IF row.daily_revenue_sf[1] = 0
    THEN <<"[<class 'decimal.DivisionUndefined'>]">>
    ELSE <<"[<class 'decimal.DivisionByZero'>]">>

RevenueDiscrepancies(merged) == SelectSeq(merged, LAMBDA row : Exceeds(row.diff_percentage))

RevenueVerdict(discrepancies) ==
    IF Len(discrepancies) > 0
    THEN [validation_status |-> "FAILED",
          message |-> <<"Found ", ToStr(Len(discrepancies)), " days with revenue discrepancy > 1%">>,
          discrepancies |-> discrepancies, counts |-> <<>>]
    ELSE [validation_status |-> "PASSED",
          message |-> <<"Revenue data matches within 1% tolerance across systems">>,
          discrepancies |-> <<>>, counts |-> <<>>]

\* lines 108-141 on the two fetched row lists; k is the dtype of the revenue columns
RevenueResult(pg, sf, k) ==
    LET check == "validate_revenue_data"
        on == <<"date">>
        missing == MissingKeys(pg, sf, on)
        merged == RevenueMerged(pg, sf)
        zero == {i \in 1..Len(merged) : merged[i].daily_revenue_pg[1] = 0}
    IN IF missing # {} THEN ErrorResult(check, KeyErrorText(on, Min(missing)))
       ELSE IF k = "object" /\ zero # {} THEN ErrorResult(check, DecimalError(merged[Min(zero)]))
       ELSE RevenueVerdict(RevenueDiscrepancies(merged))

-----------------------------------------------------------------------------
(* validate_inventory_levels: the comparison *)

\* elementwise != of two columns: a null cell differs from every cell
NotEqual(a, b) == IsNull(a) \/ IsNull(b) \/ a[1] # b[1]

InventoryJoined(pair) ==
    [product_id |-> pair[1].product_id,
     product_name |-> pair[1].product_name,
     current_stock_pg |-> pair[1].current_stock,
     last_updated_pg |-> pair[1].last_updated,
     current_stock_oracle |-> pair[2].current_stock,
     last_updated_oracle |-> pair[2].last_updated]

InventoryKeys == <<"product_id", "product_name">>

InventoryMerged(pg, ora) ==
    LET m == Merge(pg, ora, InventoryKeys) IN [i \in 1..Len(m) |-> InventoryJoined(m[i])]

InventoryDiscrepancies(merged) ==
    SelectSeq(merged, LAMBDA row : NotEqual(row.current_stock_pg, row.current_stock_oracle))

InventoryVerdict(discrepancies) ==
    IF Len(discrepancies) > 0
    THEN [validation_status |-> "FAILED",
          message |-> <<"Found ", ToStr(Len(discrepancies)), " products with inventory discrepancies">>,
          discrepancies |-> discrepancies, counts |-> <<>>]
    ELSE [validation_status |-> "PASSED",
          message |-> <<"Inventory levels match across systems">>,
          discrepancies |-> <<>>, counts |-> <<>>]

\* lines 173-202 on the two fetched row lists
InventoryResult(pg, ora) ==
    LET check == "validate_inventory_levels"
        missing == MissingKeys(pg, ora, InventoryKeys)
    IN IF missing # {} THEN ErrorResult(check, KeyErrorText(InventoryKeys, Min(missing)))
       ELSE InventoryVerdict(InventoryDiscrepancies(InventoryMerged(pg, ora)))

-----------------------------------------------------------------------------
(* What the sources may answer *)

Seqs(S, n) == UNION {[1..k -> S] : k \in 0..n}

\* execute_query either returns the row dictionaries or raises with the driver's diagnostic
Outcomes(tables) ==
    {[ok |-> TRUE, rows |-> t, diag |-> ""] : t \in tables}
        \cup {[ok |-> FALSE, rows |-> <<>>, diag |-> d] : d \in DriverDiagnostics}

\* SELECT COUNT(*) as customer_count: always exactly one row
CountRowLists == {<<[customer_count |-> c]>> : c \in 0..MaxCount}

Nth(D, i) == CHOOSE d \in D : Cardinality({e \in D : e < d}) = i - 1

\* GROUP BY day ... ORDER BY date: one row per day, ascending, over the days 1..days
RevenueTablesOver(days, values) ==
    UNION {{[i \in 1..Cardinality(D) |->
                [date |-> Some(Nth(D, i)), daily_revenue |-> Some(f[Nth(D, i)])]]
            : f \in [D -> values]} : D \in SUBSET (1..days)}

RevenueTables == RevenueTablesOver(MaxRows, {-102, -100, 0, 100, 101, 102})

RunRevenueTables == RevenueTablesOver(MaxRunRows, {100, 102})

\* SELECT product_id, product_name, current_stock, last_updated: any rows, in any order
InventoryTablesOver(n, ids, names, stocks) ==
    Seqs([product_id : ids, product_name : names, current_stock : stocks,
          last_updated : {Some(1)}], n)

InventoryTables ==
    InventoryTablesOver(MaxRows, {Some(1), Some(2), Null}, {Some("x"), Some("y")},
                        {Some(10), Some(20), Null})

RunInventoryTables ==
    InventoryTablesOver(MaxRunRows, {Some(1), Null}, {Some("x")}, {Some(10), Some(20)})

-----------------------------------------------------------------------------
(* The program *)

Init ==
    /\ pc = "construct"
    /\ conn = [s \in Sources |-> "none"]
    /\ cur = "none"
    /\ qi = 1
    /\ fetched = <<>>
    /\ dtype = "unset"
    /\ calls = NoCalls
    /\ failed = {}
    /\ compared = FALSE
    /\ results = [c \in Checks |-> NoResult]

\* a check called on a freshly built validator
InitCall(check) ==
    /\ pc = check
    /\ conn = [s \in Sources |-> "open"]
    /\ cur = "none"
    /\ qi = 1
    /\ fetched = <<>>
    /\ dtype = "unset"
    /\ calls = NoCalls
    /\ failed = {}
    /\ compared = FALSE
    /\ results = [c \in Checks |-> NoResult]

\* BusinessValidator.__init__: get_connector(...) for the next source connects
ConnectOk ==
    /\ pc = "construct"
    /\ LET i == Min({j \in 1..Len(ConnectOrder) : conn[ConnectOrder[j]] = "none"})
       IN /\ conn' = [conn EXCEPT ![ConnectOrder[i]] = "open"]
          /\ pc' = IF i = Len(ConnectOrder) THEN "validate_customer_data" ELSE pc
    /\ UNCHANGED <<cur, qi, fetched, dtype, calls, failed, compared, results>>

\* the connector's constructor raises (unreachable or misconfigured source):
\* nothing in __init__ or main() catches it
ConnectFail ==
    /\ pc = "construct"
    /\ pc' = "crashed"
    /\ UNCHANGED <<conn, cur, qi, fetched, dtype, calls, failed, compared, results>>

\* the first statement of a check starts with fresh local variables
Entering(check) == cur # check
FetchedIn(check) == IF Entering(check) THEN <<>> ELSE fetched
CallsIn(check) == IF Entering(check) THEN NoCalls ELSE calls
FailedIn(check) == IF Entering(check) THEN {} ELSE failed

\* a variant that stays in the check and issues the failed query again
RetryQuery(check) == [pc |-> check, qi |-> qi]

\* an exception in the try block: control leaves the check, main() goes on
Propagate(check) == [pc |-> After(check), qi |-> 1]

Raise(check, e) ==
    /\ results' = [results EXCEPT ![check] = ErrorResult(check, e)]
    /\ pc' = Propagate(check).pc
    /\ qi' = Propagate(check).qi

\* the return statement at the end of the comparison
Return(check, result) ==
    /\ results' = [results EXCEPT ![check] = result]
    /\ pc' = After(check)
    /\ qi' = 1
    /\ compared' = TRUE
    /\ UNCHANGED <<conn, cur, fetched, dtype, calls, failed>>

\* the comparison starts when every execute_query call of the check has returned
AllReturned(check) == qi > Len(CheckSources[check])

\* lines 51-54: self.<source>.execute_query(query)[0]
CustomerQuery ==
    LET check == "validate_customer_data" IN
    /\ pc = check
    /\ ~AllReturned(check)
    /\ \E out \in Outcomes(CountRowLists) :
         LET s == CheckSources[check][qi] IN
         /\ calls' = [CallsIn(check) EXCEPT ![s] = @ + 1]
         /\ cur' = check
         /\ compared' = FALSE
         /\ dtype' = "unset"
         /\ IF ~out.ok
            THEN /\ failed' = FailedIn(check) \cup {s}
                 /\ fetched' = FetchedIn(check)
                 /\ Raise(check, QueryError(out.diag))
            ELSE /\ failed' = FailedIn(check)
                 /\ fetched' = Append(FetchedIn(check), out.rows[1])
                 /\ qi' = qi + 1
                 /\ UNCHANGED <<pc, results>>
    /\ UNCHANGED conn

\* lines 56-72
CustomerCompare ==
    LET check == "validate_customer_data" IN
    /\ pc = check
    /\ AllReturned(check)
    /\ Return(check, CustomerResult(CountsOf(fetched)))

\* a query of a row-aligned check: pd.DataFrame(self.<source>.execute_query(query))
FrameQuery(check, tables, kinds) ==
    /\ pc = check
    /\ ~AllReturned(check)
    /\ \E out \in Outcomes(tables), k \in kinds :
         LET s == CheckSources[check][qi] IN
         /\ calls' = [CallsIn(check) EXCEPT ![s] = @ + 1]
         /\ cur' = check
         /\ compared' = FALSE
         /\ IF ~out.ok
            THEN /\ failed' = FailedIn(check) \cup {s}
                 /\ fetched' = FetchedIn(check)
                 /\ dtype' = IF Entering(check) THEN "unset" ELSE dtype
                 /\ Raise(check, QueryError(out.diag))
            ELSE /\ failed' = FailedIn(check)
                 /\ fetched' = Append(FetchedIn(check), out.rows)
                 /\ dtype' = k
                 /\ qi' = qi + 1
                 /\ UNCHANGED <<pc, results>>
    /\ UNCHANGED conn

\* lines 105-106; the driver decides what the revenue cells are (float or Decimal)
RevenueQuery(tables) ==
    FrameQuery("validate_revenue_data", tables,
               IF Entering("validate_revenue_data") THEN DTypes ELSE {dtype})

\* lines 108-135
RevenueCompare ==
    LET check == "validate_revenue_data" IN
    /\ pc = check
    /\ AllReturned(check)
    /\ Return(check, RevenueResult(fetched[1], fetched[2], dtype))

\* lines 170-171
InventoryQuery(tables) == FrameQuery("validate_inventory_levels", tables, {"unset"})

\* lines 173-196
InventoryCompare ==
    LET check == "validate_inventory_levels" IN
    /\ pc = check
    /\ AllReturned(check)
    /\ Return(check, InventoryResult(fetched[1], fetched[2]))

\* BusinessValidator.__exit__: the four connections are closed
Exit ==
    /\ pc = "exit"
    /\ conn' = [s \in Sources |-> "closed"]
    /\ pc' = "done"
    /\ UNCHANGED <<cur, qi, fetched, dtype, calls, failed, compared, results>>

\* main()
Next ==
    \/ ConnectOk
    \/ ConnectFail
    \/ CustomerQuery
    \/ CustomerCompare
    \/ RevenueQuery(RunRevenueTables)
    \/ RevenueCompare
    \/ InventoryQuery(RunInventoryTables)
    \/ InventoryCompare
    \/ Exit

Spec == Init /\ [][Next]_vars

\* validate_revenue_data alone
InitRevenue == InitCall("validate_revenue_data")
NextRevenue == RevenueQuery(RevenueTables) \/ RevenueCompare
SpecRevenue == InitRevenue /\ [][NextRevenue]_vars

\* validate_inventory_levels alone
InitInventory == InitCall("validate_inventory_levels")
NextInventory == InventoryQuery(InventoryTables) \/ InventoryCompare
SpecInventory == InitInventory /\ [][NextInventory]_vars

-----------------------------------------------------------------------------
(* Properties *)

\* the check has returned and the state still holds its local variables
Finished(check) == cur = check /\ pc # check

\* both queries of a row-aligned check returned rows and the comparison ran on them
ComparedFrames(check) ==
    /\ Finished(check)
    /\ compared
    /\ Len(fetched) = 2
    /\ fetched[1] # <<>>
    /\ fetched[2] # <<>>

Status(check) == results[check].validation_status

Verdicts == {"PASSED", "FAILED", "ERROR"}

\* C1: however the sources behave, at connection time or at query time, a run
\* that has ended has produced one result with status PASSED, FAILED or ERROR
\* for each of the three checks: no failure of a source aborts the run.
C1_EveryCheckReports ==
    pc \in {"done", "crashed"} => \A check \in Checks : Status(check) \in Verdicts

\* C2: when the query of exactly one source fails in validate_customer_data the
\* check returns ERROR with a message that names that source, and the other
\* checks report what their own sources answered.
C2_FailureNamesSource ==
    /\ \A s \in Sources :
         (Finished("validate_customer_data") /\ failed = {s}) =>
             /\ Status("validate_customer_data") = "ERROR"
             /\ \E i \in DOMAIN results["validate_customer_data"].message :
                    results["validate_customer_data"].message[i] = s
    /\ (Finished("validate_revenue_data") /\ compared) =>
           results["validate_revenue_data"] = RevenueResult(fetched[1], fetched[2], dtype)
    /\ (Finished("validate_inventory_levels") /\ compared) =>
           results["validate_inventory_levels"] = InventoryResult(fetched[1], fetched[2])

\* C3: a returned result is FAILED exactly when the discrepancy list is not
\* empty (row-aligned checks) or the counts disagree (customer check), and it
\* is ERROR only when the query of some source failed.
C3_StatusClassification ==
    \A check \in Checks :
        Finished(check) =>
            /\ Status(check) = "ERROR" => failed # {}
            /\ check # "validate_customer_data" =>
                   (Status(check) = "FAILED" <=> results[check].discrepancies # <<>>)
            /\ check = "validate_customer_data" =>
                   (Status(check) = "FAILED" <=>
                        \E i, j \in DOMAIN fetched :
                            fetched[i].customer_count # fetched[j].customer_count)

\* rows of table a whose (non-null) product key no row of table b carries
UnmatchedRows(a, b) ==
    {i \in DOMAIN a :
        /\ ~IsNull(a[i].product_id)
        /\ ~IsNull(a[i].product_name)
        /\ \A j \in DOMAIN b :
               a[i].product_id # b[j].product_id \/ a[i].product_name # b[j].product_name}

IsReported(row, discrepancies) ==
    \E k \in DOMAIN discrepancies :
        /\ discrepancies[k].product_id = row.product_id
        /\ discrepancies[k].product_name = row.product_name

\* C4: in validate_inventory_levels on two non-empty tables, every row whose
\* key is in one table and not in the other is reported as a discrepancy and
\* the status is FAILED.
C4_UnmatchedKeysFail ==
    LET check == "validate_inventory_levels" IN
    ComparedFrames(check) =>
        /\ \A i \in UnmatchedRows(fetched[1], fetched[2]) :
               /\ Status(check) = "FAILED"
               /\ IsReported(fetched[1][i], results[check].discrepancies)
        /\ \A j \in UnmatchedRows(fetched[2], fetched[1]) :
               /\ Status(check) = "FAILED"
               /\ IsReported(fetched[2][j], results[check].discrepancies)

\* C5: in validate_revenue_data, a day whose Postgres revenue is 0 and that
\* Snowflake reports too never makes the check ERROR or PASSED: the check is
\* FAILED and the day is among the discrepancies.
C5_ZeroBaselineReported ==
    LET check == "validate_revenue_data" IN
    (Finished(check) /\ failed = {} /\ Len(fetched) = 2) =>
        \A i \in DOMAIN fetched[1], j \in DOMAIN fetched[2] :
            (fetched[1][i].date = fetched[2][j].date /\ fetched[1][i].daily_revenue = Some(0)) =>
                /\ Status(check) = "FAILED"
                /\ \E k \in DOMAIN results[check].discrepancies :
                       results[check].discrepancies[k].date = fetched[1][i].date

\* C6: in validate_inventory_levels a row with a null product_id never joins a
\* row of the other source: no discrepancy of values carries a null key.
C6_NullKeysNeverJoin ==
    LET check == "validate_inventory_levels" IN
    Finished(check) =>
        \A k \in DOMAIN results[check].discrepancies :
            ~IsNull(results[check].discrepancies[k].product_id)

\* C7: a row-aligned check whose two queries both return no row is PASSED with
\* no discrepancy.
C7_EmptyTablesPass ==
    \A check \in {"validate_revenue_data", "validate_inventory_levels"} :
        (Finished(check) /\ failed = {} /\ fetched = <<<<>>, <<>>>>) =>
            /\ Status(check) = "PASSED"
            /\ results[check].discrepancies = <<>>

Occurrences(row, table) == Cardinality({i \in DOMAIN table : table[i] = row})

SameRows(a, b) ==
    /\ Len(a) = Len(b)
    /\ \A i \in DOMAIN a : Occurrences(a[i], a) = Occurrences(a[i], b)

\* C8: validate_inventory_levels on two non-empty tables with the same rows
\* (as multisets) is PASSED with no discrepancy.
C8_IdenticalTablesPass ==
    LET check == "validate_inventory_levels" IN
    (ComparedFrames(check) /\ SameRows(fetched[1], fetched[2])) =>
        /\ Status(check) = "PASSED"
        /\ results[check].discrepancies = <<>>

\* pairs of rows of the same day, Postgres row first
SameDay(pg, sf) == {p \in (DOMAIN pg) \X (DOMAIN sf) : pg[p[1]].date = sf[p[2]].date}

\* abs(other - baseline) / abs(baseline) * 100 > Threshold, for a baseline that is not 0
OverTolerance(baseline, other) == 100 * Abs(other - baseline) > Threshold * Abs(baseline)

\* C9: validate_revenue_data on two non-empty tables is FAILED when
\* abs(sf - pg) / abs(pg) * 100 exceeds 1 for some day both sources report,
\* PASSED when it is at most 1 for every such day, and it reports as many
\* discrepancies as there are days over the tolerance.
C9_ToleranceDecides ==
    LET check == "validate_revenue_data"
        pg == fetched[1]
        sf == fetched[2]
        defined == {p \in SameDay(pg, sf) : pg[p[1]].daily_revenue[1] # 0}
        over == {p \in defined :
                    OverTolerance(pg[p[1]].daily_revenue[1], sf[p[2]].daily_revenue[1])}
    IN ComparedFrames(check) =>
        /\ over # {} => Status(check) = "FAILED"
        /\ (over = {} /\ defined = SameDay(pg, sf)) => Status(check) = "PASSED"
        /\ defined = SameDay(pg, sf) =>
               Len(results[check].discrepancies) = Cardinality(over)

IndexIn(check, s) == CHOOSE i \in DOMAIN CheckSources[check] : CheckSources[check][i] = s

\* C10: within a check every source is queried at most once; the comparison
\* runs only after the queries of all the check's sources have returned; and
\* once a query has failed the check has already returned ERROR with the
\* query's error, without comparing and without querying a further source.
C10_QueryDiscipline ==
    \A check \in Checks :
        cur = check =>
            LET srcs == CheckSources[check]
                used == {srcs[i] : i \in DOMAIN srcs}
            IN /\ \A s \in Sources : calls[s] <= (IF s \in used THEN 1 ELSE 0)
               /\ compared =>
                      /\ failed = {}
                      /\ Len(fetched) = Len(srcs)
                      /\ \A s \in used : calls[s] = 1
               /\ \A s \in failed :
                      /\ ~compared
                      /\ pc # check
                      /\ Status(check) = "ERROR"
                      /\ \E d \in DriverDiagnostics :
                             results[check].message = <<ErrorPrefix(check)>> \o QueryError(d)
                      /\ \A i \in DOMAIN srcs : i > IndexIn(check, s) => calls[srcs[i]] = 0

\* the Teradata query of validate_customer_data fails after two that returned
C10_Witness ==
    /\ cur = "validate_customer_data"
    /\ failed = {"teradata"}
    /\ calls = [s \in Sources |-> IF s = "snowflake" THEN 0 ELSE 1]
    /\ Len(fetched) = 2
    /\ Status("validate_customer_data") = "ERROR"
    /\ pc = "validate_revenue_data"

====
